---- MODULE Spec2Model ----
(***************************************************************************)
(* Model of sailfish/converter.py: the CoordinateConverter (physical <->    *)
(* LB coordinates) and the UnitConverter (physical <-> lattice units).      *)
(*                                                                         *)
(* Numbers are exact rationals <<n, d>> with d > 0 in lowest terms.  A      *)
(* pair with d = 0 is not a number: <<0, 0>> is Python's None, <<1, 0>> a   *)
(* raised TypeError and <<2, 0>> a raised ZeroDivisionError.                *)
(***************************************************************************)
EXTENDS Integers, Sequences, FiniteSets, TLC

VARIABLES
    \* ---- UnitConverter ----
    uc_pc,        \* "new" | "ready" | "failed" (constructor raised) | "off"
    phys_visc,    \* self._phys_visc
    phys_len,     \* self._phys_len
    phys_vel,     \* self._phys_vel
    lb_visc,      \* self._lb_visc
    lb_len,       \* self._lb_len
    lb_vel,       \* self._lb_vel
    uc_call,      \* the last call on the object: its arguments, its outcome,
                  \* the field it derived, and (clean) whether every set_lb
                  \* so far returned normally
    \* ---- CoordinateConverter ----
    cc_pc,        \* "new" | "ready" | "failed" (constructor raised) | "off"
    config,       \* the configuration dictionary handed to __init__
    axes,         \* self.axes
    dx,           \* self.dx
    offset,       \* self.offset
    phys_min_x,   \* self.phys_min_x
    cc_call       \* the last call on the object: its arguments, the major
                  \* version of the interpreter that ran it, and its result

uc_vars == <<uc_pc, phys_visc, phys_len, phys_vel, lb_visc, lb_len, lb_vel, uc_call>>
cc_vars == <<cc_pc, config, axes, dx, offset, phys_min_x, cc_call>>
vars == <<uc_vars, cc_vars>>

----------------------------------------------------------------------------
(* Exact arithmetic, as Python's true division on numbers.                 *)

\* recorded as the interpreter of a call that does not round
NoRound == "-"

None == <<0, 0>>
TypeError == <<1, 0>>
ZeroDivisionError == <<2, 0>>

Abs(n) == IF n < 0 THEN -n ELSE n

RECURSIVE GCD(_, _)
GCD(a, b) == IF b = 0 THEN a ELSE GCD(b, a % b)

\* the rational n/d (d # 0) in lowest terms with a positive denominator
Rat(n, d) ==
    LET g == GCD(Abs(n), Abs(d))
        s == IF d < 0 THEN -1 ELSE 1
    IN  <<(s * n) \div g, (s * d) \div g>>

Num(k) == <<k, 1>>

IsNum(a) == a[2] # 0
IsErr(a) == a[2] = 0 /\ a[1] # 0

Add(a, b) == Rat(a[1] * b[2] + b[1] * a[2], a[2] * b[2])
Sub(a, b) == Rat(a[1] * b[2] - b[1] * a[2], a[2] * b[2])
Mul(a, b) == Rat(a[1] * b[1], a[2] * b[2])
Leq(a, b) == a[1] * b[2] <= b[1] * a[2]

\* a * b: an operand that is None raises TypeError; a raised error propagates
PyMul(a, b) ==
    IF IsErr(a) THEN a
    ELSE IF IsErr(b) THEN b
    ELSE IF a = None \/ b = None THEN TypeError
    ELSE Mul(a, b)

\* a / b (true division): None raises TypeError, b = 0 ZeroDivisionError
PyDiv(a, b) ==
    IF IsErr(a) THEN a
    ELSE IF IsErr(b) THEN b
    ELSE IF a = None \/ b = None THEN TypeError
    ELSE IF b[1] = 0 THEN ZeroDivisionError
    ELSE Rat(a[1] * b[2], a[2] * b[1])

ErrName(e) == IF e = TypeError THEN "TypeError" ELSE "ZeroDivisionError"

----------------------------------------------------------------------------
(* UnitConverter                                                           *)

MaxLen == 2       \* physical lengths 1..MaxLen
MaxLbLen == 2     \* lattice lengths 1..MaxLbLen

PhysViscs == {Rat(1, 1), Rat(1, 2)}
PhysLens == {Num(k) : k \in 1..MaxLen}
PhysVels == {Num(3)}
Reynolds == {Num(6)}

LbViscs == {Rat(1, 12), Rat(1, 6), Rat(1, 1)}
LbLens == {Num(k) : k \in 1..MaxLbLen}
LbVels == {Num(0), Rat(1, 2)}

\* the stability bound 1.0/6.0
MaxLbVisc == Rat(1, 6)

\* Re property of an object with the given physical fields
ReOf(pvisc, plen, pvel) == PyDiv(PyMul(plen, pvel), pvisc)

Re == ReOf(phys_visc, phys_len, phys_vel)

\* Re_lb property
Re_lb == PyDiv(PyMul(lb_len, lb_vel), lb_visc)

visc_lb == lb_visc

\* dx property of the UnitConverter
uc_dx == IF lb_len = None THEN Num(0) ELSE PyDiv(phys_len, lb_len)

\* dt property
dt == IF lb_visc = None THEN Num(0)
      ELSE PyMul(PyDiv(lb_visc, phys_visc), PyMul(uc_dx, uc_dx))

\* self._phys_visc = length * velocity / Re
PhysViscFromRe(length, velocity, re) == PyDiv(PyMul(length, velocity), re)

PhysLenFromRe_mul(visc, velocity, re) == PyMul(PyMul(re, visc), velocity)

\* self._phys_len = Re * visc / velocity
PhysLenFromRe(visc, velocity, re) == PyDiv(PyMul(re, visc), velocity)

\* self._phys_vel = Re * visc / length
PhysVelFromRe(visc, length, re) == PyDiv(PyMul(re, visc), length)

\* the physical fields __init__ leaves, and the error it raised (None: none)
InitPhys(visc, length, velocity, re) ==
    LET base == [visc |-> visc, len |-> length, vel |-> velocity, err |-> None]
    IN  IF re # None
        THEN IF visc = None
             THEN LET r == PhysViscFromRe(length, velocity, re)
                  IN  IF IsErr(r) THEN [base EXCEPT !.err = r]
                      ELSE [base EXCEPT !.visc = r]
             ELSE IF length = None
             THEN LET r == PhysLenFromRe(visc, velocity, re)
                  IN  IF IsErr(r) THEN [base EXCEPT !.err = r]
                      ELSE [base EXCEPT !.len = r]
             ELSE IF velocity = None
             THEN LET r == PhysVelFromRe(visc, length, re)
                  IN  IF IsErr(r) THEN [base EXCEPT !.err = r]
                      ELSE [base EXCEPT !.vel = r]
             ELSE base
        ELSE base

\* UnitConverter(visc, length, velocity, Re)
UnitConverterInit ==
    /\ uc_pc = "new"
    /\ \E visc \in PhysViscs \cup {None}, length \in PhysLens \cup {None},
          velocity \in PhysVels \cup {None}, re \in Reynolds \cup {None} :
         LET p == InitPhys(visc, length, velocity, re)
         IN  /\ phys_visc' = p.visc
             /\ phys_len' = p.len
             /\ phys_vel' = p.vel
             /\ uc_pc' = IF p.err = None THEN "ready" ELSE "failed"
             /\ uc_call' = [op |-> "init", visc |-> visc, length |-> length,
                            velocity |-> velocity, Re |-> re,
                            outcome |-> IF p.err = None THEN "ok"
                                        ELSE ErrName(p.err),
                            derived |-> "none", clean |-> TRUE]
    /\ lb_visc' = None
    /\ lb_len' = None
    /\ lb_vel' = None
    /\ UNCHANGED cc_vars

\* self._lb_visc = self._lb_len * self._lb_vel / self.Re
LbViscFromRe(l, u, re) == PyDiv(PyMul(l, u), re)

LbLenFromRe_mul(v, u, re) == PyMul(PyMul(re, v), u)

\* self._lb_len = self.Re * self._lb_visc / self._lb_vel
LbLenFromRe(v, u, re) == PyDiv(PyMul(re, v), u)

\* self._lb_vel = self.Re * self._lb_visc / self._lb_len
LbVelFromRe(v, l, re) == PyDiv(PyMul(re, v), l)

\* _update_missing_parameters on lattice fields v, l, u of an object whose
\* Re property evaluates to re: the fields it leaves, the field it assigned
\* and how it ended
UpdateMissing(v, l, u, re) ==
    LET base == [visc |-> v, len |-> l, vel |-> u, outcome |-> "ok",
                 derived |-> "none"]
    IN  IF v = None /\ l # None /\ u # None
        THEN LET r == LbViscFromRe(l, u, re)
             IN  IF IsErr(r) THEN [base EXCEPT !.outcome = ErrName(r)]
                 ELSE [base EXCEPT !.visc = r, !.derived = "visc",
                          !.outcome = IF Leq(r, MaxLbVisc) THEN "ok"
                                      ELSE "AssertionError"]
        ELSE IF l = None /\ v # None /\ u # None
        THEN LET r == LbLenFromRe(v, u, re)
             IN  IF IsErr(r) THEN [base EXCEPT !.outcome = ErrName(r)]
                 ELSE [base EXCEPT !.len = r, !.derived = "len"]
        ELSE IF u = None /\ l # None /\ v # None
        THEN LET r == LbVelFromRe(v, l, re)
             IN  IF IsErr(r) THEN [base EXCEPT !.outcome = ErrName(r)]
                 ELSE [base EXCEPT !.vel = r, !.derived = "vel"]
        ELSE base

OverwriteAlways(arg, old) == arg

\* if arg is not None: self._lb_x = arg
Overwrite(arg, old) == IF arg # None THEN arg ELSE old

\* the lattice fields after set_lb(visc, length, velocity), and its outcome
SetLbResult(visc, length, velocity) ==
    UpdateMissing(Overwrite(visc, lb_visc), Overwrite(length, lb_len),
                  Overwrite(velocity, lb_vel), Re)

\* set_lb(visc, length, velocity)
set_lb ==
    /\ uc_pc = "ready"
    /\ \E visc \in LbViscs \cup {None}, length \in LbLens \cup {None},
          velocity \in LbVels \cup {None} :
         LET r == SetLbResult(visc, length, velocity)
         IN  /\ lb_visc' = r.visc
             /\ lb_len' = r.len
             /\ lb_vel' = r.vel
             /\ uc_call' = [op |-> "set_lb", visc |-> visc, length |-> length,
                            velocity |-> velocity, Re |-> None,
                            outcome |-> r.outcome, derived |-> r.derived,
                            clean |-> uc_call.clean /\ r.outcome = "ok"]
    /\ UNCHANGED <<uc_pc, phys_visc, phys_len, phys_vel>>
    /\ UNCHANGED cc_vars

NoCall == [op |-> "none", visc |-> None, length |-> None, velocity |-> None,
           Re |-> None, outcome |-> "ok", derived |-> "none", clean |-> TRUE]

UCOff ==
    /\ uc_pc = "off"
    /\ phys_visc = None /\ phys_len = None /\ phys_vel = None
    /\ lb_visc = None /\ lb_len = None /\ lb_vel = None
    /\ uc_call = NoCall

CCOff ==
    /\ cc_pc = "off"
    /\ config = <<>> /\ axes = <<>> /\ dx = <<>> /\ offset = <<>>
    /\ phys_min_x = <<>>
    /\ cc_call = [op |-> "none", arg |-> <<>>, round_ |-> FALSE, py |-> NoRound,
                  result |-> <<>>]

UCInit ==
    /\ uc_pc = "new"
    /\ phys_visc = None /\ phys_len = None /\ phys_vel = None
    /\ lb_visc = None /\ lb_len = None /\ lb_vel = None
    /\ uc_call = NoCall
    /\ CCOff

UCNext == UnitConverterInit \/ set_lb

SpecUC == UCInit /\ [][UCNext]_vars

----------------------------------------------------------------------------
(* CoordinateConverter                                                     *)

MaxPadNodes == 1    \* a configuration pads at most this many nodes in all
MaxCutNodes == 1    \* a configuration cuts at most this many nodes in all

\* a key that is absent from the configuration dictionary
NoKey == <<>>

\* element i of a Python list, i counted from 0
At(list, i) == list[i + 1]

\* list.index(v): the first position, counted from 0, that holds v
Index(list, v) == CHOOSE i \in 0..(Len(list) - 1) :
                     /\ At(list, i) = v
                     /\ \A j \in 0..(i - 1) : At(list, j) # v

Permutations3 ==
    {<<"x", "y", "z">>, <<"x", "z", "y">>, <<"y", "x", "z">>,
     <<"y", "z", "x">>, <<"z", "x", "y">>, <<"z", "y", "x">>}

\* bounding_box and size of a configuration
Geometries ==
    {[bounding_box |-> <<<<Num(0), Num(1)>>, <<Num(0), Num(2)>>,
                         <<Num(0), Num(3)>>>>,
      size |-> <<12, 10, 8>>],
     [bounding_box |-> <<<<Num(-1), Num(1)>>, <<Rat(1, 2), Num(2)>>,
                         <<Num(1), Num(0)>>>>,
      size |-> <<1, 2, 3>>],
     [bounding_box |-> <<<<Num(0), Num(1)>>, <<Num(0), Num(2)>>,
                         <<Num(0), Num(3)>>>>,
      size |-> <<2, 2, 1>>]}

RECURSIVE SumSeq(_)
SumSeq(q) == IF q = <<>> THEN 0 ELSE Head(q) + SumSeq(Tail(q))

Paddings ==
    {NoKey} \cup {q \in [1..6 -> 0..MaxPadNodes] : SumSeq(q) <= MaxPadNodes}

Cuts ==
    {NoKey} \cup
    {<<<<q[1], q[2]>>, <<q[3], q[4]>>, <<q[5], q[6]>>>> :
        q \in {r \in [1..6 -> 0..MaxCutNodes] : SumSeq(r) <= MaxCutNodes}}

Configs ==
    {[axes |-> a, bounding_box |-> g.bounding_box, size |-> g.size,
      padding |-> p, cuts |-> c] :
        a \in Permutations3, g \in Geometries, p \in Paddings, c \in Cuts}

\* self.axes = [ax.index('x'), ax.index('y'), ax.index('z')]
InitAxes(ax) == <<Index(ax, "x"), Index(ax, "y"), Index(ax, "z")>>

\* offset of natural axis i (loop body, lines 47 and 60-62)
InitOffset(cfg, i) ==
    -At(cfg.padding, 2 * i)
    + (IF cfg.cuts # NoKey THEN At(At(cfg.cuts, i), 0) ELSE 0)

\* 'size' of natural axis i when dx is computed (lines 50-53 and 60-61)
InitSizeNatural(cfg, i) ==
    At(cfg.size, i) - At(cfg.padding, 2 * i) - At(cfg.padding, 2 * i + 1)
    + (IF cfg.cuts # NoKey
       THEN At(At(cfg.cuts, i), 0) + At(At(cfg.cuts, i), 1) ELSE 0)

InitSize(cfg, i) ==
    At(cfg.size, 2 - i) - At(cfg.padding, 2 * i) - At(cfg.padding, 2 * i + 1)
    + (IF cfg.cuts # NoKey
       THEN At(At(cfg.cuts, i), 0) + At(At(cfg.cuts, i), 1) ELSE 0)

\* dx = (phys_size[1] - phys_size[0]) / size
InitDx(cfg, i) ==
    PyDiv(Sub(At(At(cfg.bounding_box, i), 1), At(At(cfg.bounding_box, i), 0)),
          Num(InitSize(cfg, i)))

\* the natural axes whose loop iteration raises ZeroDivisionError
BadAxes(cfg) == {i \in 0..2 : IsErr(InitDx(cfg, i))}

Min(S) == CHOOSE m \in S : \A n \in S : m <= n

\* the object __init__ builds from cfg: its fields when the constructor
\* returned or raised, and the error raised ("ok": none)
InitResult(cfg) ==
    IF cfg.padding = NoKey
    THEN [err |-> "KeyError", axes |-> InitAxes(cfg.axes), dx |-> <<>>,
          offset |-> <<>>, phys_min_x |-> <<>>]
    ELSE LET n == IF BadAxes(cfg) = {} THEN 3 ELSE Min(BadAxes(cfg))
         IN  [err |-> IF n = 3 THEN "ok" ELSE "ZeroDivisionError",
              axes |-> InitAxes(cfg.axes),
              dx |-> [k \in 1..n |-> InitDx(cfg, k - 1)],
              offset |-> [k \in 1..(IF n = 3 THEN 3 ELSE n + 1) |->
                            InitOffset(cfg, k - 1)],
              phys_min_x |-> [k \in 1..n |->
                                At(At(cfg.bounding_box, k - 1), 0)]]

NoCCCall == [op |-> "none", arg |-> <<>>, round_ |-> FALSE, py |-> NoRound,
             result |-> <<>>]

\* CoordinateConverter(config)
CoordinateConverterInit ==
    /\ cc_pc = "new"
    /\ \E cfg \in Configs :
         LET r == InitResult(cfg)
         IN  /\ config' = cfg
             /\ axes' = r.axes
             /\ dx' = r.dx
             /\ offset' = r.offset
             /\ phys_min_x' = r.phys_min_x
             /\ cc_pc' = IF r.err = "ok" THEN "ready" ELSE "failed"
             /\ cc_call' = [NoCCCall EXCEPT !.op = "init", !.result = r.err]
    /\ UNCHANGED uc_vars

\* floor of a number
Floor(a) == a[1] \div a[2]

\* int(round(x)): Python 2 rounds a tie away from zero, Python 3 to even
Round(a, ver) ==
    LET f == Floor(a)
        twice == 2 * (a[1] - f * a[2])     \* 2 * (a - f) * a[2]
    IN  IF twice < a[2] THEN f
        ELSE IF twice > a[2] THEN f + 1
        ELSE IF ver = 2 THEN (IF a[1] >= 0 THEN f + 1 ELSE f)
        ELSE (IF f % 2 = 0 THEN f ELSE f + 1)

ToLbCoordPlus(phys_x, i) ==
    Add(PyDiv(Sub(phys_x, At(phys_min_x, i)), At(dx, i)), Num(At(offset, i)))

\* (phys_x - self.phys_min_x[i]) / self.dx[i] - self.offset[i]
ToLbCoord(phys_x, i) ==
    Sub(PyDiv(Sub(phys_x, At(phys_min_x, i)), At(dx, i)), Num(At(offset, i)))

\* the slot of lb_pos that natural axis i is written to
ToLbSlot(i) == 2 - At(axes, i)

\* to_lb(phys_pos, round_) run by Python ver
ToLb(phys_pos, round_, ver) ==
    LET lb_pos == [s \in 1..3 |->
                     LET i == CHOOSE k \in 0..2 : ToLbSlot(k) = s - 1
                     IN  ToLbCoord(At(phys_pos, i), i)]
    IN  IF round_ THEN [s \in 1..3 |-> Num(Round(lb_pos[s], ver))]
        ELSE lb_pos

FromLbAxisDirect(i) == At(axes, 2 - i)

\* i = self.axes.index(2 - i)
FromLbAxis(i) == Index(axes, 2 - i)

\* self.dx[i] * (lb_x + self.offset[i]) + self.phys_min_x[i]
FromLbCoord(lb_x, i) ==
    Add(Mul(At(dx, i), Add(lb_x, Num(At(offset, i)))), At(phys_min_x, i))

\* from_lb(lb_pos)
FromLb(lb_pos) ==
    [n \in 1..3 |->
        LET S == {i \in 0..2 : FromLbAxis(i) = n - 1}
        IN  IF S = {} THEN Num(0)
            ELSE LET i == CHOOSE k \in S : \A m \in S : m <= k
                 IN  FromLbCoord(At(lb_pos, i), n - 1)]

\* The converter is immutable once built and its methods are pure: a
\* behaviour builds a converter and applies one mapping to it.

MinCorner(cfg) == [k \in 1..3 |-> cfg.bounding_box[k][1]]
MaxCorner(cfg) == [k \in 1..3 |-> cfg.bounding_box[k][2]]

PhysPositions ==
    {MinCorner(config), MaxCorner(config),
     <<Rat(1, 2), Num(1), Rat(3, 2)>>, <<Rat(1, 4), Rat(-1, 3), Rat(5, 2)>>}

LbPositions ==
    {<<Num(0), Num(0), Num(0)>>, <<Num(1), Num(0), Num(2)>>,
     <<Num(6), Num(5), Num(4)>>, <<Num(-1), Num(7), Num(2)>>}

\* the interpreters the module runs on
PyVersions == {2, 3}

\* lb = conv.to_lb(phys_pos, round_)
to_lb ==
    /\ cc_pc = "ready" /\ cc_call.op = "init"
    /\ \E phys_pos \in PhysPositions, round_ \in BOOLEAN :
       \E ver \in IF round_ THEN PyVersions ELSE {NoRound} :
         cc_call' = [op |-> "to_lb", arg |-> phys_pos, round_ |-> round_,
                     py |-> ver, result |-> ToLb(phys_pos, round_, ver)]
    /\ UNCHANGED <<cc_pc, config, axes, dx, offset, phys_min_x>>
    /\ UNCHANGED uc_vars

\* phys = conv.from_lb(lb_pos)
from_lb ==
    /\ cc_pc = "ready" /\ cc_call.op = "init"
    /\ \E lb_pos \in LbPositions :
         cc_call' = [op |-> "from_lb", arg |-> lb_pos, round_ |-> FALSE,
                     py |-> NoRound, result |-> FromLb(lb_pos)]
    /\ UNCHANGED <<cc_pc, config, axes, dx, offset, phys_min_x>>
    /\ UNCHANGED uc_vars

\* phys = conv.from_lb(conv.to_lb(phys_pos, round_=False))
from_lb_of_to_lb ==
    /\ cc_pc = "ready" /\ cc_call.op = "init"
    /\ \E phys_pos \in PhysPositions :
         cc_call' = [op |-> "from_lb(to_lb)", arg |-> phys_pos,
                     round_ |-> FALSE, py |-> NoRound,
                     result |-> FromLb(ToLb(phys_pos, FALSE, NoRound))]
    /\ UNCHANGED <<cc_pc, config, axes, dx, offset, phys_min_x>>
    /\ UNCHANGED uc_vars

\* lb = conv.to_lb(conv.from_lb(lb_pos), round_=True)
to_lb_of_from_lb ==
    /\ cc_pc = "ready" /\ cc_call.op = "init"
    /\ \E lb_pos \in LbPositions, ver \in PyVersions :
         cc_call' = [op |-> "to_lb(from_lb)", arg |-> lb_pos,
                     round_ |-> TRUE, py |-> ver,
                     result |-> ToLb(FromLb(lb_pos), TRUE, ver)]
    /\ UNCHANGED <<cc_pc, config, axes, dx, offset, phys_min_x>>
    /\ UNCHANGED uc_vars

CCInit ==
    /\ cc_pc = "new"
    /\ config = <<>> /\ axes = <<>> /\ dx = <<>> /\ offset = <<>>
    /\ phys_min_x = <<>> /\ cc_call = NoCCCall
    /\ UCOff

CCNext ==
    \/ CoordinateConverterInit
    \/ to_lb
    \/ from_lb
    \/ from_lb_of_to_lb
    \/ to_lb_of_from_lb

SpecCC == CCInit /\ [][CCNext]_vars

----------------------------------------------------------------------------
(* Properties of the UnitConverter                                         *)

AllLbSet == lb_visc # None /\ lb_len # None /\ lb_vel # None
PhysDetermined == IsNum(phys_visc) /\ IsNum(phys_len) /\ IsNum(phys_vel)

\* C1: in every state of a constructed UnitConverter, whatever set_lb calls
\* were made, the lattice viscosity is unset or at most 1/6.
C1_StabilityBound ==
    uc_pc = "ready" => (lb_visc = None \/ Leq(lb_visc, MaxLbVisc))

\* C10: after a set_lb call that failed the stability check, lb_visc is
\* still unset, so visc_lb and dt do not reflect the rejected viscosity.
C10_RejectedNotRetained ==
    (uc_pc = "ready" /\ uc_call.op = "set_lb"
        /\ uc_call.outcome = "AssertionError")
    => (lb_visc = None /\ visc_lb = None /\ dt = Num(0))

\* C2 (as claimed): with fully determined physical parameters, after set_lb
\* calls that all returned normally, whenever the three lattice fields are
\* set, Re_lb == Re.
C2_ReLbAlwaysRe ==
    (uc_pc = "ready" /\ PhysDetermined /\ uc_call.op = "set_lb"
        /\ uc_call.clean /\ AllLbSet)
    => Re_lb = Re

\* C2 (amended): right after a set_lb call that derived the one missing
\* lattice field and returned normally, with a non-zero lattice viscosity,
\* Re_lb == Re.
C2_ReLbAfterDerivation ==
    (uc_pc = "ready" /\ uc_call.op = "set_lb" /\ uc_call.outcome = "ok"
        /\ uc_call.derived # "none" /\ lb_visc[1] # 0)
    => (AllLbSet /\ PhysDetermined /\ IsNum(Re_lb) /\ Re_lb = Re)

\* a derivation of lb_len from an explicitly given viscosity and velocity
C2_Witness ==
    /\ uc_pc = "ready" /\ uc_call.op = "set_lb" /\ uc_call.outcome = "ok"
    /\ uc_call.derived = "len" /\ uc_call.visc # None
    /\ uc_call.velocity # None /\ lb_visc[1] # 0

NoneCount(a) ==
    (IF a.visc = None THEN 1 ELSE 0) + (IF a.length = None THEN 1 ELSE 0)
    + (IF a.velocity = None THEN 1 ELSE 0)

\* x / y for numbers x and y, y # 0
Quot(x, y) == Rat(x[1] * y[2], x[2] * y[1])

\* the part of C5 about at most one missing field: with Re given and exactly
\* one of visc, length, velocity None, that field is derived by its formula,
\* the other two are unchanged and the Re property is the Re passed in; with
\* all three supplied nothing is derived and Re == length * velocity / visc.
C5_OneMissing ==
    LET a == uc_call
    IN  /\ (a.Re # None /\ NoneCount(a) = 1) =>
            /\ uc_pc = "ready"
            /\ a.visc = None =>
                 /\ phys_visc = Quot(Mul(a.length, a.velocity), a.Re)
                 /\ phys_len = a.length /\ phys_vel = a.velocity
            /\ a.length = None =>
                 /\ phys_len = Quot(Mul(a.Re, a.visc), a.velocity)
                 /\ phys_visc = a.visc /\ phys_vel = a.velocity
            /\ a.velocity = None =>
                 /\ phys_vel = Quot(Mul(a.Re, a.visc), a.length)
                 /\ phys_visc = a.visc /\ phys_len = a.length
            /\ Re = a.Re
        /\ NoneCount(a) = 0 =>
            /\ uc_pc = "ready"
            /\ phys_visc = a.visc /\ phys_len = a.length
            /\ phys_vel = a.velocity
            /\ Re = Quot(Mul(a.length, a.velocity), a.visc)

\* C5 (as claimed): the above, and with Re given and more than one field
\* None the constructor derives the first missing field in the order visc,
\* length, velocity and only that one.
C5_Construction ==
    uc_call.op = "init" =>
        LET a == uc_call
        IN  /\ C5_OneMissing
            /\ (a.Re # None /\ NoneCount(a) > 1) =>
                /\ uc_pc = "ready"
                /\ IF a.visc = None
                   THEN /\ phys_visc # None
                        /\ phys_len = a.length /\ phys_vel = a.velocity
                   ELSE /\ phys_len # None
                        /\ phys_visc = a.visc /\ phys_vel = a.velocity

\* C5 (amended): the above, and with Re given and more than one field None
\* the constructor raises TypeError and derives nothing.
C5_ConstructionOrFail ==
    uc_call.op = "init" =>
        LET a == uc_call
        IN  /\ C5_OneMissing
            /\ (a.Re # None /\ NoneCount(a) > 1) =>
                /\ uc_pc = "failed" /\ a.outcome = "TypeError"
                /\ phys_visc = a.visc /\ phys_len = a.length
                /\ phys_vel = a.velocity

\* a construction that derived the length from Re, visc and velocity
C5_Witness ==
    /\ uc_call.op = "init" /\ uc_pc = "ready" /\ uc_call.Re # None
    /\ uc_call.length = None /\ uc_call.visc # None
    /\ uc_call.velocity # None /\ phys_len # None

\* C8: a set_lb call overwrites exactly the lattice fields whose argument is
\* not None, then derives at most the one field that is the only unset one;
\* with fewer than two or all three fields set it derives nothing and raises
\* nothing; the physical parameters are never changed.
C8_SetLbFrame ==
    [][(uc_pc = "ready" /\ uc_call'.op = "set_lb") =>
        LET a == uc_call'
            v == IF a.visc # None THEN a.visc ELSE lb_visc
            l == IF a.length # None THEN a.length ELSE lb_len
            u == IF a.velocity # None THEN a.velocity ELSE lb_vel
            nset == (IF v # None THEN 1 ELSE 0) + (IF l # None THEN 1 ELSE 0)
                    + (IF u # None THEN 1 ELSE 0)
        IN  /\ phys_visc' = phys_visc /\ phys_len' = phys_len
            /\ phys_vel' = phys_vel
            /\ v # None => lb_visc' = v
            /\ l # None => lb_len' = l
            /\ u # None => lb_vel' = u
            /\ nset # 2 =>
                 /\ lb_visc' = v /\ lb_len' = l /\ lb_vel' = u
                 /\ a.outcome = "ok" /\ a.derived = "none"
            /\ (nset = 2 /\ a.outcome = "ok") =>
                 /\ v = None => (a.derived = "visc"
                                 /\ Mul(lb_visc', Re) = Mul(l, u))
                 /\ l = None => (a.derived = "len"
                                 /\ Mul(lb_len', u) = Mul(Re, v))
                 /\ u = None => (a.derived = "vel"
                                 /\ Mul(lb_vel', l) = Mul(Re, v))
            /\ (nset = 2 /\ a.outcome \notin {"ok", "AssertionError"}) =>
                 /\ lb_visc' = v /\ lb_len' = l /\ lb_vel' = u
    ]_vars

\* a set_lb call that kept a field set by an earlier call and, with only
\* two fields then set, derived the third
C8_Witness ==
    /\ uc_pc = "ready" /\ uc_call.op = "set_lb" /\ uc_call.outcome = "ok"
    /\ uc_call.derived = "vel" /\ uc_call.visc # None
    /\ uc_call.length = None /\ uc_call.velocity = None

----------------------------------------------------------------------------
(* Properties of the CoordinateConverter                                   *)

ZeroPadding == [k \in 1..6 |-> 0]
ZeroCuts == <<<<0, 0>>, <<0, 0>>, <<0, 0>>>>
Unpadded == config.padding = ZeroPadding /\ config.cuts \in {NoKey, ZeroCuts}

\* C3: for every permutation, padding and cuts for which a converter is
\* built, from_lb(to_lb(p, round_=False)) == p for every position p.
C3_PhysRoundTrip ==
    (cc_pc = "ready" /\ cc_call.op = "from_lb(to_lb)")
    => cc_call.result = cc_call.arg

\* a round trip under a cyclic permutation, with padding and cuts
C3_Witness ==
    /\ cc_pc = "ready" /\ cc_call.op = "from_lb(to_lb)"
    /\ config.axes = <<"y", "z", "x">>
    /\ config.padding \notin {NoKey, ZeroPadding}
    /\ config.cuts \notin {NoKey, ZeroCuts}
    /\ cc_call.arg = <<Rat(1, 4), Rat(-1, 3), Rat(5, 2)>>

\* C7: for every permutation, padding and cuts for which a converter is
\* built, to_lb(from_lb(L), round_=True) == L for every integer triple L.
C7_LbRoundTrip ==
    (cc_pc = "ready" /\ cc_call.op = "to_lb(from_lb)")
    => cc_call.result = cc_call.arg

\* a round trip under a cyclic permutation, with a non-zero offset
C7_Witness ==
    /\ cc_pc = "ready" /\ cc_call.op = "to_lb(from_lb)"
    /\ config.axes = <<"z", "x", "y">>
    /\ \E k \in 1..3 : offset[k] # 0
    /\ cc_call.arg = <<Num(-1), Num(7), Num(2)>>

ExampleConfig ==
    /\ config.size = <<12, 10, 8>>
    /\ config.bounding_box = <<<<Num(0), Num(1)>>, <<Num(0), Num(2)>>,
                               <<Num(0), Num(3)>>>>

\* C6: with axes 'xyz', zero padding and no cuts, to_lb with rounding puts
\* natural axis k in slot 2-k, holding round((p[k] - bounding_box[k][0]) /
\* dx[k]) with dx[k] = (bounding_box[k][1] - bounding_box[k][0]) /
\* size[2-k]; size [12,10,8] and bounding_box [(0,1),(0,2),(0,3)] give
\* to_lb([0.5,1.0,1.5]) == [6,5,4].
C6_IdentityAxes ==
    (cc_pc = "ready" /\ cc_call.op = "to_lb" /\ cc_call.round_
        /\ config.axes = <<"x", "y", "z">> /\ Unpadded)
    => /\ \A k \in 0..2 :
            LET bb == At(config.bounding_box, k)
                w == Quot(Sub(bb[2], bb[1]), Num(At(config.size, 2 - k)))
            IN  At(cc_call.result, 2 - k) =
                  Num(Round(Quot(Sub(At(cc_call.arg, k), bb[1]), w),
                            cc_call.py))
       /\ (ExampleConfig /\ cc_call.arg = <<Rat(1, 2), Num(1), Rat(3, 2)>>)
            => cc_call.result = <<Num(6), Num(5), Num(4)>>

\* the example of C6
C6_Witness ==
    /\ cc_pc = "ready" /\ cc_call.op = "to_lb" /\ cc_call.round_
    /\ config.axes = <<"x", "y", "z">> /\ Unpadded /\ ExampleConfig
    /\ cc_call.arg = <<Rat(1, 2), Num(1), Rat(3, 2)>>

\* C9: for every permutation, with zero padding and no cuts, to_lb without
\* rounding maps the minimum corner of the bounding box to [0,0,0] and the
\* maximum corner to [size[0], size[1], size[2]].
C9_BoxCoversLattice ==
    (cc_pc = "ready" /\ cc_call.op = "to_lb" /\ ~cc_call.round_ /\ Unpadded)
    => /\ cc_call.arg = MinCorner(config)
            => cc_call.result = <<Num(0), Num(0), Num(0)>>
       /\ cc_call.arg = MaxCorner(config)
            => cc_call.result = [k \in 1..3 |-> Num(config.size[k])]

\* C4: a configuration without a 'padding' key is accepted and yields the
\* dx, offset and phys_min_x of the same configuration with zero padding.
C4_MissingPaddingIsZero ==
    (cc_call.op = "init" /\ config.padding = NoKey)
    => LET z == InitResult([config EXCEPT !.padding = ZeroPadding])
       IN  /\ cc_pc = "ready"
           /\ dx = z.dx /\ offset = z.offset /\ phys_min_x = z.phys_min_x

====
